---- MODULE Spec2Model ----
(***************************************************************************)
(* Model of src/main.rs: saturating pixel arithmetic, pixel-wise image     *)
(* combination, the kernel-application engine (apply_matrix), the median   *)
(* filter and the named filters composed from them.                        *)
(*                                                                         *)
(* An image is a record [panic, w, h, px]; px maps <<x, y>> to a pixel     *)
(* <<r, g, b, a>>.  A call that panics (an out-of-bounds get_pixel, an     *)
(* index into an empty Vec, an i32 overflow in a build with overflow       *)
(* checks) yields the value Panicked, and a panic propagates through every *)
(* caller.  f32 values are dyadic rationals <<n, d>> (d a power of two),   *)
(* for which the f32 products of the code are exact; `as i32` truncates    *)
(* toward zero.                                                            *)
(***************************************************************************)
EXTENDS Integers, Sequences, FiniteSets

VARIABLES
    overflow_checks, \* build profile: TRUE = i32 overflow panics, FALSE = wraps
    pc,              \* "ready" (inputs loaded) or "done" (one operation returned)
    op,              \* name of the function that was called
    in1,             \* first image argument
    in2,             \* second image argument (binary operations)
    matrix,          \* kernel argument of apply_matrix
    ivalue,          \* i32 argument (brightness delta, median window)
    fvalue,          \* f32 argument <<n, d>> (scale factor, blend value)
    a,               \* u8 argument of safe_add / safe_mult
    res,             \* result of safe_add / safe_mult: [panic, v]
    out              \* returned image

vars == <<overflow_checks, pc, op, in1, in2, matrix, ivalue, fvalue, a, res, out>>

----------------------------------------------------------------------------
(* Bounds of the model *)

MaxPixels == 4    \* images have at most this many pixels (w * h)
MaxWindow == 1    \* largest median window

(* Program constants *)

U8Max == 255
I32Max == 2147483647
I32Min == -I32Max - 1
Opaque == 255

----------------------------------------------------------------------------
(* Scalars *)

Min(x, y) == IF x < y THEN x ELSE y
Max(x, y) == IF x > y THEN x ELSE y

\* (n / d) as i32 for d > 0: truncation toward zero
as_i32(n, d) == IF n >= 0 THEN n \div d ELSE -((-n) \div d)

Ok(v) == [panic |-> FALSE, v |-> v]
Fail == [panic |-> TRUE, v |-> 0]

\* i32 addition of a u8 (0..255) and an i32: overflows only upward.  In a
\* build with overflow checks the overflow panics, otherwise it wraps.
safe_add(x, b) ==
    LET overflow == b > I32Max - x
        c == IF overflow THEN ((x - 1) - (I32Max - b)) + I32Min ELSE x + b
        scaled == Min(U8Max, Max(0, c))
    IN  IF overflow /\ overflow_checks THEN Fail ELSE Ok(scaled)

safe_mult(x, b) ==
    LET c == as_i32(x * b[1], b[2])
        scaled == Min(U8Max, Max(0, c))
    IN  Ok(scaled)

----------------------------------------------------------------------------
(* Pixels *)

Rgba(r, g, b, alpha) ==
    [panic |-> r.panic \/ g.panic \/ b.panic, p |-> <<r.v, g.v, b.v, alpha>>]

pixel_sub(pixel_1, pixel_2) ==
    Rgba(safe_add(pixel_1[1], -1 * pixel_2[1]),
         safe_add(pixel_1[2], -1 * pixel_2[2]),
         safe_add(pixel_1[3], -1 * pixel_2[3]),
         pixel_1[4])

pixel_add_mut_alpha2(pixel_1, pixel_2) ==
    Rgba(safe_add(pixel_1[1], pixel_2[1]),
         safe_add(pixel_1[2], pixel_2[2]),
         safe_add(pixel_1[3], pixel_2[3]),
         pixel_2[4])

pixel_add(pixel_1, pixel_2) ==
    Rgba(safe_add(pixel_1[1], pixel_2[1]),
         safe_add(pixel_1[2], pixel_2[2]),
         safe_add(pixel_1[3], pixel_2[3]),
         pixel_1[4])

pixel_shift(pixel, value) ==
    Rgba(safe_add(pixel[1], value), safe_add(pixel[2], value),
         safe_add(pixel[3], value), pixel[4])

pixel_scale(pixel, value) ==
    Rgba(safe_mult(pixel[1], value), safe_mult(pixel[2], value),
         safe_mult(pixel[3], value), pixel[4])

----------------------------------------------------------------------------
(* Images *)

Coords(w, h) == (0 .. w - 1) \X (0 .. h - 1)

Img(w, h, px) == [panic |-> FALSE, w |-> w, h |-> h, px |-> px]

Panicked == [panic |-> TRUE, w |-> 0, h |-> 0, px |-> [c \in {} |-> <<0, 0, 0, 0>>]]

\* the computation of one pixel panicked
PixelPanic == [panic |-> TRUE, p |-> <<0, 0, 0, 0>>]

\* ImageBuffer::dimensions
dimensions(input) == <<input.w, input.h>>

\* ImageBuffer::get_pixel: panics outside the image
get_pixel(input, x, y) ==
    IF x \in 0 .. input.w - 1 /\ y \in 0 .. input.h - 1
    THEN [panic |-> FALSE, p |-> input.px[<<x, y>>]]
    ELSE PixelPanic

\* a new w x h buffer whose pixel at c is f[c]; the loop over
\* enumerate_pixels_mut panics as soon as one pixel's computation panics
enumerate_pixels_mut(w, h, f) ==
    IF \E c \in Coords(w, h) : f[c].panic
    THEN Panicked
    ELSE Img(w, h, [c \in Coords(w, h) |-> f[c].p])

image_sub(input_1, input_2) ==
    IF input_1.panic \/ input_2.panic THEN Panicked
    ELSE
    LET input_x == dimensions(input_1)[1]
        input_y == dimensions(input_1)[2]
        pixel(x, y) ==
            LET image_1 == get_pixel(input_1, x, y)
                image_2 == get_pixel(input_2, x, y)
            IN  IF image_1.panic \/ image_2.panic THEN PixelPanic
                ELSE pixel_sub(image_1.p, image_2.p)
    IN  enumerate_pixels_mut(input_x, input_y,
            [c \in Coords(input_x, input_y) |-> pixel(c[1], c[2])])

image_add(input_1, input_2) ==
    IF input_1.panic \/ input_2.panic THEN Panicked
    ELSE
    LET input_x == dimensions(input_1)[1]
        input_y == dimensions(input_1)[2]
        pixel(x, y) ==
            LET image_1 == get_pixel(input_1, x, y)
                image_2 == get_pixel(input_2, x, y)
            IN  IF image_1.panic \/ image_2.panic THEN PixelPanic
                ELSE pixel_add(image_1.p, image_2.p)
    IN  enumerate_pixels_mut(input_x, input_y,
            [c \in Coords(input_x, input_y) |-> pixel(c[1], c[2])])

\* (1 as f32) - value is <<d - n, d>> for value = <<n, d>>
linear_blend(input_1, input_2, value) ==
    IF input_1.panic \/ input_2.panic THEN Panicked
    ELSE
    LET input_x == dimensions(input_1)[1]
        input_y == dimensions(input_1)[2]
        pixel(x, y) ==
            LET g1 == get_pixel(input_1, x, y)
                g2 == get_pixel(input_2, x, y)
            IN  IF g1.panic \/ g2.panic THEN PixelPanic
                ELSE LET scaled_1 == pixel_scale(g1.p, <<value[2] - value[1], value[2]>>)
                         scaled_2 == pixel_scale(g2.p, value)
                     IN  pixel_add(scaled_1.p, scaled_2.p)
    IN  enumerate_pixels_mut(input_x, input_y,
            [c \in Coords(input_x, input_y) |-> pixel(c[1], c[2])])

adjust_brightness(input, value) ==
    IF input.panic THEN Panicked
    ELSE
    LET input_x == dimensions(input)[1]
        input_y == dimensions(input)[2]
        pixel(x, y) ==
            LET g == get_pixel(input, x, y)
            IN  IF g.panic THEN PixelPanic ELSE pixel_shift(g.p, value)
    IN  enumerate_pixels_mut(input_x, input_y,
            [c \in Coords(input_x, input_y) |-> pixel(c[1], c[2])])

adjust_contrast(input, value) ==
    IF input.panic THEN Panicked
    ELSE
    LET input_x == dimensions(input)[1]
        input_y == dimensions(input)[2]
        pixel(x, y) ==
            LET g == get_pixel(input, x, y)
            IN  IF g.panic THEN PixelPanic ELSE pixel_scale(g.p, value)
    IN  enumerate_pixels_mut(input_x, input_y,
            [c \in Coords(input_x, input_y) |-> pixel(c[1], c[2])])

----------------------------------------------------------------------------
(* The kernel-application engine.  A kernel is [den, w]: w is the Array2 as *)
(* a sequence of rows of integer numerators, the weight at [[i, j]] is      *)
(* w[i + 1][j + 1] / den.                                                   *)

\* cmp::min(n - 1, cmp::max(0, v)): the sample coordinate clamped to the image
clamp_index_mut_none(v, n) == v

clamp_index(v, n) == Min(n - 1, Max(0, v))

\* the per-channel products of one sample with one weight, each `as i32`
prod_mut_clamped(input_curr, matrix_curr) ==
    [ch \in 1 .. 3 |->
        Min(U8Max, Max(0, as_i32(input_curr[ch] * matrix_curr[1], matrix_curr[2])))]

prod(input_curr, matrix_curr) ==
    [ch \in 1 .. 3 |-> as_i32(input_curr[ch] * matrix_curr[1], matrix_curr[2])]

\* total = the channel-wise i32 sum of pixels_to_sum, in push order
RECURSIVE sum_pixels(_, _)
sum_pixels(pixels_to_sum, n) ==
    IF n = 0 THEN <<0, 0, 0>>
    ELSE LET total == sum_pixels(pixels_to_sum, n - 1)
         IN  <<total[1] + pixels_to_sum[n][1],
               total[2] + pixels_to_sum[n][2],
               total[3] + pixels_to_sum[n][3]>>

\* the pixel written from the three sums
output_pixel_mut_transparent(total) ==
    <<Min(U8Max, Max(0, total[1])), Min(U8Max, Max(0, total[2])),
      Min(U8Max, Max(0, total[3])), 0>>

output_pixel(total) ==
    <<Min(U8Max, Max(0, total[1])), Min(U8Max, Max(0, total[2])),
      Min(U8Max, Max(0, total[3])), Opaque>>

apply_matrix(input, m) ==
    IF input.panic THEN Panicked
    ELSE
    LET input_x == dimensions(input)[1]
        input_y == dimensions(input)[2]
        matrix_x == Len(m.w)
        matrix_y == Len(m.w[1])
        count == matrix_x * matrix_y
        i_of(k) == (k - 1) \div matrix_y
        j_of(k) == (k - 1) % matrix_y
        input_curr(x, y, k) ==
            get_pixel(input, clamp_index(x + i_of(k), input_x),
                             clamp_index(y + j_of(k), input_y))
        pixels_to_sum(x, y) ==
            [k \in 1 .. count |->
                prod(input_curr(x, y, k).p,
                     <<m.w[i_of(k) + 1][j_of(k) + 1], m.den>>)]
        pixel(x, y) ==
            IF \E k \in 1 .. count : input_curr(x, y, k).panic
            THEN PixelPanic
            ELSE [panic |-> FALSE,
                  p |-> output_pixel(sum_pixels(pixels_to_sum(x, y), count))]
    IN  enumerate_pixels_mut(input_x, input_y,
            [c \in Coords(input_x, input_y) |-> pixel(c[1], c[2])])

x_grad(input) == apply_matrix(input, [den |-> 1, w |-> << <<-1, 1>> >>])

y_grad(input) == apply_matrix(input, [den |-> 1, w |-> << <<1>>, <<-1>> >>])

bilinear ==
    [den |-> 16, w |-> << <<1, 2, 1>>, <<2, 4, 2>>, <<1, 2, 1>> >>]

bilinear_filter(input) == apply_matrix(input, bilinear)

gaussian ==
    [den |-> 256, w |-> << <<1, 4, 6, 4, 1>>, <<4, 16, 24, 16, 4>>,
                           <<6, 24, 36, 24, 6>>, <<4, 16, 24, 16, 4>>,
                           <<1, 4, 6, 4, 1>> >>]

gaussian_blur(input) == apply_matrix(input, gaussian)

----------------------------------------------------------------------------
(* image::imageops::contrast, the function sharpen and edge_detect call:   *)
(* every channel c of every pixel (alpha included) becomes                 *)
(* clamp(((c / 255 - 0.5) * percent + 0.5) * 255, 0, 255) cast to u8, with *)
(* percent = ((100 + contrast) / 100)^2.  Computed here in exact           *)
(* rationals.                                                              *)

contrast(input, value) ==
    IF input.panic THEN Panicked
    ELSE
    LET pn == (100 * value[2] + value[1]) * (100 * value[2] + value[1])
        pd == (100 * value[2]) * (100 * value[2])
        f(b) == LET num == (2 * b - U8Max) * pn + U8Max * pd
                    den == 2 * pd
                IN  IF num <= 0 THEN 0
                    ELSE IF num >= U8Max * den THEN U8Max
                    ELSE num \div den
    IN  Img(input.w, input.h,
            [c \in Coords(input.w, input.h) |->
                [ch \in 1 .. 4 |-> f(input.px[c][ch])]])

sharpen(input, value) ==
    LET filtered == bilinear_filter(input)
        detail == image_sub(input, filtered)
        detail_2 == contrast(detail, value)
    IN  image_add(input, detail_2)

edge_detect(input) ==
    LET cleaned == contrast(input, <<2, 1>>)
        sharpened == sharpen(cleaned, <<10, 1>>)
        gradient_x == x_grad(sharpened)
        gradient_y == y_grad(sharpened)
    IN  image_add(gradient_x, gradient_y)

----------------------------------------------------------------------------
(* The median filter *)

\* numbers[numbers.len() / 2]; indexing an empty Vec panics
median(numbers) ==
    LET mid == Len(numbers) \div 2
    IN  IF mid + 1 > Len(numbers) THEN Fail ELSE Ok(numbers[mid + 1])

\* Vec::sort: ascending
RECURSIVE insert(_, _)
insert(s, v) ==
    IF s = <<>> THEN <<v>>
    ELSE IF v <= Head(s) THEN <<v>> \o s
    ELSE <<Head(s)>> \o insert(Tail(s), v)

RECURSIVE sort(_)
sort(s) == IF s = <<>> THEN <<>> ELSE insert(sort(Tail(s)), Head(s))

\* the range (-1 * window)..(window + 1), as the sequence of its values
window_range_mut_inclusive(window) ==
    [k \in 1 .. Max(0, 2 * window + 2) |-> k - 1 - window]

window_range(window) ==
    [k \in 1 .. Max(0, 2 * window + 1) |-> k - 1 - window]

median_filter(input, window) ==
    IF input.panic THEN Panicked
    ELSE
    LET input_x == dimensions(input)[1]
        input_y == dimensions(input)[2]
        range == window_range(window)
        n == Len(range)
        pixel_curr(x, y, k) ==
            get_pixel(input,
                Min(input_x - 1, Max(0, x + range[((k - 1) \div n) + 1])),
                Min(input_y - 1, Max(0, y + range[((k - 1) % n) + 1])))
        vals(x, y, ch) == [k \in 1 .. n * n |-> pixel_curr(x, y, k).p[ch]]
        pixel(x, y) ==
            IF \E k \in 1 .. n * n : pixel_curr(x, y, k).panic
            THEN PixelPanic
            ELSE LET r_median == median(sort(vals(x, y, 1)))
                     g_median == median(sort(vals(x, y, 2)))
                     b_median == median(sort(vals(x, y, 3)))
                     input_pixel == get_pixel(input, x, y)
                 IN  IF input_pixel.panic
                     THEN PixelPanic
                     ELSE Rgba(r_median, g_median, b_median, input_pixel.p[4])
    IN  enumerate_pixels_mut(input_x, input_y,
            [c \in Coords(input_x, input_y) |-> pixel(c[1], c[2])])

----------------------------------------------------------------------------
(* Inputs *)

Dims == {d \in (1 .. MaxPixels) \X (1 .. MaxPixels) : d[1] * d[2] <= MaxPixels}

Palette == {<<200, 100, 7, 0>>, <<13, 255, 90, 128>>}

\* every image over the palette
PaletteImages ==
    UNION {{Img(d[1], d[2], px) : px \in [Coords(d[1], d[2]) -> Palette]} : d \in Dims}

\* row-major grey ramp 10, 20, 30, ... (opaque)
Ramp(w, h) ==
    Img(w, h, [c \in Coords(w, h) |->
                  LET v == 10 * (1 + c[1] + w * c[2]) IN <<v, v, v, Opaque>>])

\* 1 x 1 images of every grey level
Grey(v) == Img(1, 1, [c \in Coords(1, 1) |-> <<v, v, v, Opaque>>])

Uniform(w, h, p) == Img(w, h, [c \in Coords(w, h) |-> p])

Ramps == {Ramp(d[1], d[2]) : d \in Dims}

Greys == {Grey(v) : v \in 0 .. U8Max}

Images == PaletteImages \cup Ramps \cup {Grey(0), Grey(1), Grey(U8Max - 1), Grey(U8Max)}

SecondImages(first) ==
    Ramps \cup {Uniform(first.w, first.h, <<50, 60, 70, 77>>)}

Kernels ==
    { [den |-> 1, w |-> << <<-1, 1>> >>],
      [den |-> 1, w |-> << <<1>>, <<-1>> >>],
      bilinear,
      gaussian,
      [den |-> 1, w |-> << <<2>> >>],
      [den |-> 1, w |-> << <<3, -2>> >>],
      [den |-> 1, w |-> << <<1, 1>>, <<1, 1>> >>],
      [den |-> 2, w |-> << <<1>>, <<1>> >>] }

Deltas == {I32Min, -256, -20, -1, 0, 20, 50, I32Max - 255, I32Max}

Factors == {<<-1, 1>>, <<0, 1>>, <<1, 2>>, <<1, 1>>, <<3, 1>>, <<10, 1>>}

BlendValues == {<<0, 1>>, <<1, 4>>, <<1, 1>>}

Windows == -1 .. MaxWindow

NoImage == Panicked
NoMatrix == [den |-> 1, w |-> << <<0>> >>]

----------------------------------------------------------------------------
(* The state machine: load the inputs, call one function, keep its result *)

Loaded(images) ==
    /\ overflow_checks \in BOOLEAN
    /\ in1 \in images
    /\ pc = "ready"
    /\ op = "none"
    /\ in2 = NoImage
    /\ matrix = NoMatrix
    /\ ivalue = 0
    /\ fvalue = <<0, 1>>
    /\ a = 0
    /\ res = Ok(0)
    /\ out = NoImage

Init == Loaded(Images)

\* the 1 x 1 images of every channel value
InitGrey == Loaded(Greys)

\* a call of a function of the image alone
Unary(name, result) ==
    /\ pc = "ready"
    /\ pc' = "done"
    /\ op' = name
    /\ out' = result
    /\ UNCHANGED <<overflow_checks, in1, in2, a, res>>

XGrad ==
    /\ Unary("x_grad", x_grad(in1))
    /\ UNCHANGED <<matrix, ivalue, fvalue>>

YGrad ==
    /\ Unary("y_grad", y_grad(in1))
    /\ UNCHANGED <<matrix, ivalue, fvalue>>

BilinearFilter ==
    /\ Unary("bilinear_filter", bilinear_filter(in1))
    /\ UNCHANGED <<matrix, ivalue, fvalue>>

GaussianBlur ==
    /\ Unary("gaussian_blur", gaussian_blur(in1))
    /\ UNCHANGED <<matrix, ivalue, fvalue>>

ApplyMatrix ==
    \E m \in Kernels :
        /\ Unary("apply_matrix", apply_matrix(in1, m))
        /\ matrix' = m
        /\ UNCHANGED <<ivalue, fvalue>>

Sharpen ==
    \E value \in Factors :
        /\ Unary("sharpen", sharpen(in1, value))
        /\ fvalue' = value
        /\ UNCHANGED <<matrix, ivalue>>

EdgeDetect ==
    /\ Unary("edge_detect", edge_detect(in1))
    /\ UNCHANGED <<matrix, ivalue, fvalue>>

Contrast ==
    \E value \in Factors :
        /\ Unary("contrast", contrast(in1, value))
        /\ fvalue' = value
        /\ UNCHANGED <<matrix, ivalue>>

MedianFilter ==
    \E window \in Windows :
        /\ Unary("median_filter", median_filter(in1, window))
        /\ ivalue' = window
        /\ UNCHANGED <<matrix, fvalue>>

AdjustBrightness ==
    \E value \in Deltas :
        /\ Unary("adjust_brightness", adjust_brightness(in1, value))
        /\ ivalue' = value
        /\ UNCHANGED <<matrix, fvalue>>

AdjustContrast ==
    \E value \in Factors :
        /\ Unary("adjust_contrast", adjust_contrast(in1, value))
        /\ fvalue' = value
        /\ UNCHANGED <<matrix, ivalue>>

\* a call of a function of two images
Binary(name, input_2, result) ==
    /\ pc = "ready"
    /\ pc' = "done"
    /\ op' = name
    /\ in2' = input_2
    /\ out' = result
    /\ UNCHANGED <<overflow_checks, in1, matrix, ivalue, a, res>>

ImageAdd ==
    \E input_2 \in SecondImages(in1) :
        /\ Binary("image_add", input_2, image_add(in1, input_2))
        /\ UNCHANGED fvalue

ImageSub ==
    \E input_2 \in SecondImages(in1) :
        /\ Binary("image_sub", input_2, image_sub(in1, input_2))
        /\ UNCHANGED fvalue

LinearBlend ==
    \E input_2 \in SecondImages(in1), value \in BlendValues :
        /\ Binary("linear_blend", input_2, linear_blend(in1, input_2, value))
        /\ fvalue' = value

\* a call of the scalar helpers on a channel value of the image
SafeAdd ==
    \E ch \in 1 .. 3, b \in Deltas :
        /\ pc = "ready"
        /\ pc' = "done"
        /\ op' = "safe_add"
        /\ a' = in1.px[<<0, 0>>][ch]
        /\ ivalue' = b
        /\ res' = safe_add(in1.px[<<0, 0>>][ch], b)
        /\ UNCHANGED <<overflow_checks, in1, in2, matrix, fvalue, out>>

SafeMult ==
    \E ch \in 1 .. 3, b \in Factors :
        /\ pc = "ready"
        /\ pc' = "done"
        /\ op' = "safe_mult"
        /\ a' = in1.px[<<0, 0>>][ch]
        /\ fvalue' = b
        /\ res' = safe_mult(in1.px[<<0, 0>>][ch], b)
        /\ UNCHANGED <<overflow_checks, in1, in2, matrix, ivalue, out>>

Next ==
    \/ XGrad
    \/ YGrad
    \/ BilinearFilter
    \/ GaussianBlur
    \/ ApplyMatrix
    \/ Sharpen
    \/ EdgeDetect
    \/ Contrast
    \/ MedianFilter
    \/ AdjustBrightness
    \/ AdjustContrast
    \/ ImageAdd
    \/ ImageSub
    \/ LinearBlend
    \/ SafeAdd
    \/ SafeMult

Spec == Init /\ [][Next]_vars

\* the kernel functions on the 1 x 1 images of every channel value
NextKernel ==
    \/ XGrad
    \/ YGrad
    \/ BilinearFilter
    \/ GaussianBlur
    \/ ApplyMatrix

SpecGrey == InitGrey /\ [][NextKernel]_vars

----------------------------------------------------------------------------
(* Vocabulary of the properties *)

Returned == pc = "done"

KernelOps == {"x_grad", "y_grad", "bilinear_filter", "gaussian_blur", "apply_matrix"}

BinaryOps == {"image_add", "image_sub", "linear_blend"}

\* the kernel the returned call applied
KernelOf ==
    CASE op = "x_grad" -> [den |-> 1, w |-> << <<-1, 1>> >>]
      [] op = "y_grad" -> [den |-> 1, w |-> << <<1>>, <<-1>> >>]
      [] op = "bilinear_filter" -> bilinear
      [] op = "gaussian_blur" -> gaussian
      [] OTHER -> matrix

Cells(m) == (0 .. Len(m.w) - 1) \X (0 .. Len(m.w[1]) - 1)

\* the quotient n / d (d > 0) with its fractional part dropped
TowardZero(n, d) ==
    IF n % d = 0 THEN n \div d
    ELSE IF n > 0 THEN n \div d
    ELSE (n \div d) + 1

Clamp255(v) == IF v < 0 THEN 0 ELSE IF v > 255 THEN 255 ELSE v

\* the sum of f[e] over the e in S
RECURSIVE SumOver(_, _)
SumOver(S, f) ==
    IF S = {} THEN 0
    ELSE LET e == CHOOSE e \in S : TRUE IN f[e] + SumOver(S \ {e}, f)

SameSize(i, o) ==
    /\ ~o.panic
    /\ o.w = i.w
    /\ o.h = i.h
    /\ DOMAIN o.px = Coords(i.w, i.h)

\* the channel value at (x, y), the coordinates clamped to the border
Sample(i, x, y, ch) ==
    i.px[<<(IF x > i.w - 1 THEN i.w - 1 ELSE x),
           (IF y > i.h - 1 THEN i.h - 1 ELSE y)>>][ch]

\* sum over the kernel cells of the truncated products at output pixel c
TruncatedSum(i, m, c, ch) ==
    SumOver(Cells(m),
        [k \in Cells(m) |->
            TowardZero(Sample(i, c[1] + k[1], c[2] + k[2], ch)
                       * m.w[k[1] + 1][k[2] + 1], m.den)])

WeightSum(m) == SumOver(Cells(m), [k \in Cells(m) |-> m.w[k[1] + 1][k[2] + 1]])

\* base + delta clamped to [0, 255], in unbounded integers
ExactAdd(base, delta) ==
    IF delta > 255 THEN 255
    ELSE IF delta < -255 THEN 0
    ELSE Clamp255(base + delta)

----------------------------------------------------------------------------
(* C1: x_grad is a forward difference along x: every output R, G, B       *)
(* channel at (x, y) is clamp(in(min(x+1, W-1), y) - in(x, y), 0, 255).    *)
C1_XGradIsForwardDifferenceAlongX ==
    (Returned /\ op = "x_grad") =>
        /\ SameSize(in1, out)
        /\ \A c \in Coords(in1.w, in1.h), ch \in 1 .. 3 :
              out.px[c][ch] =
                  Clamp255(Sample(in1, c[1] + 1, c[2], ch) - in1.px[c][ch])

(* C2: sharpen(img, amount) = add(img, scale(subtract(img, blur3x3(img)),  *)
(* amount)), scale being the saturating channel-wise multiplication.       *)
C2_SharpenScalesDetail ==
    (Returned /\ op = "sharpen") =>
        out = image_add(in1,
                  adjust_contrast(image_sub(in1, bilinear_filter(in1)), fvalue))

(* C3 as written: a kernel applied to a 1x1 image yields the input's       *)
(* channel values scaled by the sum of the kernel's weights.               *)
C3_OneByOneScaledByWeightSum ==
    (Returned /\ op \in KernelOps /\ in1.w = 1 /\ in1.h = 1) =>
        /\ SameSize(in1, out)
        /\ \A ch \in 1 .. 3 :
              out.px[<<0, 0>>][ch] =
                  Clamp255(TowardZero(in1.px[<<0, 0>>][ch] * WeightSum(KernelOf),
                                      KernelOf.den))

(* C3 amended: a kernel applied to a 1x1 image yields, per channel, the    *)
(* sum over the cells of the products value x weight, each truncated       *)
(* toward zero, clamped to [0, 255]; that is the value scaled by the       *)
(* weight sum when no product has a fractional part, and for the 3x3 blur  *)
(* kernel it is 4*(c div 16) + 4*(c div 8) + (c div 4), which is c exactly *)
(* when c is a multiple of 16.                                             *)
C3_OneByOneTruncatedPerCell ==
    (Returned /\ op \in KernelOps /\ in1.w = 1 /\ in1.h = 1) =>
        /\ SameSize(in1, out)
        /\ \A ch \in 1 .. 3 :
              LET v == in1.px[<<0, 0>>][ch]
                  o == out.px[<<0, 0>>][ch]
                  m == KernelOf
              IN  /\ o = Clamp255(TruncatedSum(in1, m, <<0, 0>>, ch))
                  /\ (\A k \in Cells(m) : (v * m.w[k[1] + 1][k[2] + 1]) % m.den = 0)
                        => o = Clamp255((v * WeightSum(m)) \div m.den)
                  /\ op = "bilinear_filter" =>
                        /\ o = 4 * (v \div 16) + 4 * (v \div 8) + (v \div 4)
                        /\ (o = v) <=> (v % 16 = 0)

C3_Witness ==
    /\ Returned
    /\ op = "bilinear_filter"
    /\ in1 = Grey(255)
    /\ out.px[<<0, 0>>] = <<247, 247, 247, 255>>

(* C4 as written: linear_blend(a, b, 0.0) = a and linear_blend(a, b, 1.0)  *)
(* = b in all four channels, for equal-sized a and b.                      *)
C4_BlendEndpointsAllChannels ==
    (Returned /\ op = "linear_blend" /\ in1.w = in2.w /\ in1.h = in2.h) =>
        /\ fvalue = <<0, 1>> => out = in1
        /\ fvalue = <<1, 1>> => out = in2

(* C4 amended: linear_blend(a, b, 0.0) = a in all four channels;           *)
(* linear_blend(a, b, 1.0) has the R, G, B of b and the alpha of a.        *)
C4_BlendEndpointsAlphaOfFirst ==
    (Returned /\ op = "linear_blend" /\ in1.w = in2.w /\ in1.h = in2.h) =>
        /\ fvalue = <<0, 1>> => out = in1
        /\ fvalue = <<1, 1>> =>
              /\ SameSize(in2, out)
              /\ \A c \in Coords(in1.w, in1.h) :
                    /\ \A ch \in 1 .. 3 : out.px[c][ch] = in2.px[c][ch]
                    /\ out.px[c][4] = in1.px[c][4]

C4_Witness ==
    /\ Returned
    /\ op = "linear_blend"
    /\ fvalue = <<1, 1>>
    /\ in1.w = 2 /\ in1.h = 2 /\ in2.w = 2 /\ in2.h = 2
    /\ in1.px[<<0, 0>>][4] = 0
    /\ in2.px[<<0, 0>>][4] = 77
    /\ ~out.panic
    /\ out.px[<<0, 0>>] = <<50, 60, 70, 0>>

(* C5: safe_add never panics and never wraps: its result is                *)
(* clamp(base + delta, 0, 255) in unbounded integers for every i32 delta,  *)
(* and so is every R, G, B channel of adjust_brightness.                   *)
C5_SafeAddExactForEveryDelta ==
    /\ (Returned /\ op = "safe_add") =>
          /\ ~res.panic
          /\ res.v = ExactAdd(a, ivalue)
    /\ (Returned /\ op = "adjust_brightness") =>
          /\ SameSize(in1, out)
          /\ \A c \in Coords(in1.w, in1.h) :
                /\ \A ch \in 1 .. 3 : out.px[c][ch] = ExactAdd(in1.px[c][ch], ivalue)
                /\ out.px[c][4] = in1.px[c][4]

(* C6: image_add, image_sub and linear_blend called with two images of     *)
(* different width or height end in an error and return no image.          *)
C6_MismatchedDimensionsFail ==
    (Returned /\ op \in BinaryOps /\ (in1.w # in2.w \/ in1.h # in2.h)) =>
        out.panic

(* C7: every pixel of an apply_matrix output has alpha 255, whatever the   *)
(* kernel and the input alpha.                                             *)
C7_KernelOutputIsOpaque ==
    (Returned /\ op \in KernelOps) =>
        /\ SameSize(in1, out)
        /\ \A c \in Coords(in1.w, in1.h) : out.px[c][4] = 255

C7_Witness ==
    /\ Returned
    /\ op = "x_grad"
    /\ in1 = Uniform(2, 2, <<200, 100, 7, 0>>)
    /\ \A c \in Coords(2, 2) : out.px[c][4] = 255

(* C8: median_filter(I, 0) equals I in all four channels of every pixel.   *)
C8_MedianWindowZeroIsIdentity ==
    (Returned /\ op = "median_filter" /\ ivalue = 0) => out = in1

C8_Witness ==
    /\ Returned
    /\ op = "median_filter"
    /\ ivalue = 0
    /\ in1.w = 2 /\ in1.h = 2
    /\ in1.px[<<0, 0>>] = <<200, 100, 7, 0>>
    /\ in1.px[<<1, 0>>] = <<13, 255, 90, 128>>
    /\ out = in1

(* C9: every filter (blur, sharpen, gradients, edge detection, brightness, *)
(* contrast, median with a window >= 0) returns an image of the width and  *)
(* height of its input.                                                    *)
C9_FiltersPreserveDimensions ==
    (/\ Returned
     /\ op \in {"bilinear_filter", "gaussian_blur", "sharpen", "x_grad", "y_grad",
                "edge_detect", "adjust_brightness", "adjust_contrast", "median_filter"}
     /\ (op = "median_filter" => ivalue >= 0))
        => SameSize(in1, out)

(* C10: every R, G, B channel of an apply_matrix output at (x, y) is the   *)
(* clamp to [0, 255], applied once, of the sum over the kernel cells       *)
(* (i, j) of the products sample x weight, each truncated toward zero,     *)
(* the sample taken at (x+i, y+j) with each coordinate clamped to the      *)
(* image; no coordinate outside the image is read (the call returns).      *)
C10_KernelSumTruncatedPerTermClampedOnce ==
    (Returned /\ op \in KernelOps) =>
        /\ SameSize(in1, out)
        /\ \A c \in Coords(in1.w, in1.h), ch \in 1 .. 3 :
              out.px[c][ch] = Clamp255(TruncatedSum(in1, KernelOf, c, ch))

C10_Witness ==
    /\ Returned
    /\ op = "apply_matrix"
    /\ matrix = [den |-> 1, w |-> << <<3, -2>> >>]
    /\ in1 = Ramp(2, 2)
    /\ out.px[<<0, 0>>][1] = 0
    /\ out.px[<<1, 1>>][1] = 40

====
